---- MODULE Spec2Model ----
(***************************************************************************)
(* Heads-up Texas Hold'em simulator (src/pokergame.py): the betting state  *)
(* machine kept in st.session_state, the AI decision policy get_ai_action  *)
(* and the button handlers of main(); and the equity estimator            *)
(* calculate_equity of the game and of the standalone calculator           *)
(* (src/poker.py).                                                         *)
(*                                                                         *)
(* Chip amounts are Python floats whose values are dyadic rationals        *)
(* (bb / 2, 0.75 * pot, 0.50 * pot, pot / 2).  The model keeps every       *)
(* amount as an integer number of 1/Scale chips; a step whose result is    *)
(* not a whole number of units is outside the model's resolution          *)
(* (see Exact).                                                            *)
(***************************************************************************)
EXTENDS Integers, Sequences, FiniteSets, TLC

\* ------------------------------------------------------------------ bounds
\* Number of binary digits kept after the point of a chip amount.
ScaleBits == 3
\* Number of cards of the modelled deck (the program's deck has 52).
DeckSize == 9
\* Number of betting buttons (Fold, Check, Call, Bet/Raise) pressed in one
\* behaviour.
MaxPresses == 5
\* Largest pot, to_call and stack, in small blinds, that get_ai_action is
\* applied to on its own.
MaxBlinds == 6
\* Largest simulation budget calculate_equity is applied with (the program's
\* callers pass 50000).
MaxSims == 2

Scale == 2 ^ ScaleBits

\* ------------------------------------------------- program constants
INITIAL_STACK == 1000
BIG_BLIND == 20
FOLD_THRESHOLD == 30
CALL_THRESHOLD == 45
RAISE_THRESHOLD == 75
\* len(RANKS) and len(SUITS)
NumRanks == 13
NumSuits == 4

VARIABLES
    game_active,    \* st.session_state.game_active
    game_over,      \* st.session_state.game_over
    hand_outcome,   \* st.session_state.hand_outcome ("None" or the fold narrative)
    player_stack,   \* st.session_state.player_stack, in 1/Scale chips
    ai_stack,       \* st.session_state.ai_stack, in 1/Scale chips
    bb,             \* st.session_state.bb, in 1/Scale chips
    current_pot,    \* st.session_state.current_pot, in 1/Scale chips
    board,          \* st.session_state.board
    player_hand,    \* st.session_state.player_hand
    ai_hand,        \* st.session_state.ai_hand
    round_street,   \* st.session_state.round_street
    to_call,        \* st.session_state.to_call, in 1/Scale chips
    hands,          \* number of hands dealt so far
    presses,        \* number of betting buttons pressed so far (at most MaxPresses)
    last_op,        \* the handler that ran last: the button, the chips it moved
                    \* from the player's stack, the AI's answer and its chips
    decision,       \* get_ai_action applied on its own: arguments and result
    estimate        \* calculate_equity applied on its own: arguments, loop
                    \* counters and result

vars == <<game_active, game_over, hand_outcome, player_stack, ai_stack, bb,
          current_pot, board, player_hand, ai_hand, round_street, to_call,
          hands, presses, last_op, decision, estimate>>

gameVars == <<game_active, game_over, hand_outcome, player_stack, ai_stack, bb,
              current_pot, board, player_hand, ai_hand, round_street, to_call,
              hands, presses, last_op>>

\* ------------------------------------------------------------- helpers
Min(a, b) == IF a <= b THEN a ELSE b
Max(a, b) == IF a >= b THEN a ELSE b

\* n / d is a whole number of units
Exact(n, d) == n % d = 0

SeqToSet(s) == {s[i] : i \in 1..Len(s)}

RECURSIVE SetToSeq(_)
SetToSeq(S) == IF S = {} THEN <<>>
               ELSE LET m == CHOOSE x \in S : \A y \in S : x <= y
                    IN <<m>> \o SetToSeq(S \ {m})

\* ---------------------------------------------------------------- cards
\* full_deck_int: the canonical deck, cards named 1..DeckSize
full_deck_int == 1..DeckSize

\* Deck(): a shuffled deck.  The shuffles enumerated are the cuts of the
\* canonical order; draw(4) pops the first four cards.
DeckDraw4(cut) == [i \in 1..4 |-> ((cut + i - 1) % DeckSize) + 1]

\* Hand scoring oracle (deuces Evaluator.evaluate): lower is better, ties are
\* possible.  Modelled as a high-card rule over hand and board, two cards
\* per rank.
CardRank(c) == (c + 1) \div 2
BestRank(S) == CHOOSE r \in {CardRank(c) : c \in S} : \A c \in S : CardRank(c) <= r
Evaluate(hand, brd) ==
    CardRank(DeckSize) + 1 - BestRank(SeqToSet(hand) \cup SeqToSet(brd))

\* ----------------------------------------------------- AI decision policy
\* min_raise = max(st.session_state.bb, 2 * to_call)
MinRaise(b, tc) == Max(b, 2 * tc)

\* mutant: the equity has to exceed the pot odds
MeetsPotOdds_Strict(eq, pot, tc) ==
    IF tc > 0 THEN eq * (pot + tc) > 100 * tc ELSE eq > 0

\* ai_equity >= required_equity, with ai_equity = eq / 100 and
\* required_equity = to_call / (current_pot + to_call) if to_call > 0 else 0
MeetsPotOdds(eq, pot, tc) ==
    IF tc > 0 THEN eq * (pot + tc) >= 100 * tc ELSE eq >= 0

\* min(frac * current_pot, ai_stack) for frac = num / den
PotFraction(num, den, pot, stack) ==
    IF num * pot <= den * stack
    THEN [amount |-> (num * pot) \div den, exact |-> Exact(num * pot, den)]
    ELSE [amount |-> stack, exact |-> TRUE]

\* raise_amount = min(3 * to_call, ai_stack); return max(raise_amount, min_raise)
RaiseAmount(b, tc, stack) == Max(Min(3 * tc, stack), MinRaise(b, tc))

\* mutant: the bluff bet is made with every hand below the raise threshold
GetAiAction_BluffsMedium(eq, pot, tc, stack, b, bluff, bluff2) ==
    IF tc = 0
    THEN IF eq >= RAISE_THRESHOLD
         THEN [action |-> "Bet"] @@ PotFraction(3, 4, pot, stack)
         ELSE IF eq < RAISE_THRESHOLD /\ bluff
         THEN [action |-> "Bet"] @@ PotFraction(1, 2, pot, stack)
         ELSE [action |-> "Check", amount |-> 0, exact |-> TRUE]
    ELSE IF eq >= RAISE_THRESHOLD
         THEN [action |-> "Raise", amount |-> RaiseAmount(b, tc, stack), exact |-> TRUE]
         ELSE IF MeetsPotOdds(eq, pot, tc) /\ eq >= CALL_THRESHOLD
         THEN [action |-> "Call", amount |-> tc, exact |-> TRUE]
         ELSE IF MeetsPotOdds(eq, pot, tc) /\ eq < CALL_THRESHOLD /\ bluff2
         THEN [action |-> "Raise", amount |-> RaiseAmount(b, tc, stack), exact |-> TRUE]
         ELSE [action |-> "Fold", amount |-> 0, exact |-> TRUE]

\* get_ai_action(ai_equity, current_pot, to_call, ai_stack); eq is the equity
\* in percent, bluff and bluff2 are the outcomes of random.random() < 0.20
\* and random.random() < 0.1
GetAiAction(eq, pot, tc, stack, b, bluff, bluff2) ==
    IF tc = 0
    THEN IF eq >= RAISE_THRESHOLD
         THEN [action |-> "Bet"] @@ PotFraction(3, 4, pot, stack)
         ELSE IF eq <= FOLD_THRESHOLD /\ bluff
         THEN [action |-> "Bet"] @@ PotFraction(1, 2, pot, stack)
         ELSE [action |-> "Check", amount |-> 0, exact |-> TRUE]
    ELSE IF eq >= RAISE_THRESHOLD
         THEN [action |-> "Raise", amount |-> RaiseAmount(b, tc, stack), exact |-> TRUE]
         ELSE IF MeetsPotOdds(eq, pot, tc) /\ eq >= CALL_THRESHOLD
         THEN [action |-> "Call", amount |-> tc, exact |-> TRUE]
         ELSE IF MeetsPotOdds(eq, pot, tc) /\ eq < CALL_THRESHOLD /\ bluff2
         THEN [action |-> "Raise", amount |-> RaiseAmount(b, tc, stack), exact |-> TRUE]
         ELSE [action |-> "Fold", amount |-> 0, exact |-> TRUE]

\* Equities calculate_equity can report (percent): one value per band of the
\* policy's thresholds.
EquityLevels == {20, 40, 50, 80}

\* handle_ai_turn: equity is 0.5 on Preflop, calculate_equity(...) otherwise;
\* levels are the reported equities enumerated
AiEquities(street, levels) == IF street = "Preflop" THEN {50} ELSE levels

\* ------------------------------------------------------- game flow helpers
\* mutant: the small blind is a full big blind
SmallBlind_Full(b) == b

\* sb = st.session_state.bb / 2
SmallBlind(b) == b \div 2

\* mutant: the Turn is skipped
NextStreet_SkipsTurn(street) ==
    CASE street = "Preflop" -> "Flop"
      [] street = "Flop" -> "River"
      [] OTHER -> street

\* the street advance_street moves to, and the number of cards it draws
NextStreet(street) ==
    CASE street = "Preflop" -> "Flop"
      [] street = "Flop" -> "Turn"
      [] street = "Turn" -> "River"
      [] OTHER -> street

\* mutant: the Flop is dealt with two cards
NumDraw_TwoOnFlop(street) ==
    CASE street = "Preflop" -> 2
      [] street = "Flop" -> 1
      [] street = "Turn" -> 1
      [] OTHER -> 0

NumDraw(street) ==
    CASE street = "Preflop" -> 3
      [] street = "Flop" -> 1
      [] street = "Turn" -> 1
      [] OTHER -> 0

\* mutant: the board is left out of the known cards
AvailableCards_HoleOnly(ph, ah, brd) ==
    full_deck_int \ (SeqToSet(ph) \cup SeqToSet(ah))

\* available_cards = [c for c in full_deck_int if c not in known_cards_int]
AvailableCards(ph, ah, brd) ==
    full_deck_int \ (SeqToSet(ph) \cup SeqToSet(ah) \cup SeqToSet(brd))

\* random.sample(available_cards, num_draw): every sample (all = TRUE), or the
\* n lowest and the n highest available cards only; a sample is listed in
\* deck order
Samples(avail, n, all) ==
    IF all
    THEN {SetToSeq(S) : S \in {T \in SUBSET avail : Cardinality(T) = n}}
    ELSE LET s == SetToSeq(avail)
         IN {SubSeq(s, 1, n), SubSeq(s, Len(s) - n + 1, Len(s))}

\* mutant: a new street opens with the big blind to call
ToCallAfterStreet_Blind == BIG_BLIND * Scale

\* advance_street: the to_call a new street opens with
ToCallAfterStreet == 0

\* mutant: the showdown is also run on the Turn
ShowdownReady_FromTurn(street, tc) == street \in {"Turn", "River"} /\ tc = 0

\* advance_game_state: the showdown test
ShowdownReady(street, tc) == street = "River" /\ tc = 0

\* mutant: the higher score wins
ShowdownPayout_HigherWins(player_score, ai_score, pot) ==
    IF player_score > ai_score THEN [player |-> pot, ai |-> 0, exact |-> TRUE]
    ELSE IF player_score < ai_score THEN [player |-> 0, ai |-> pot, exact |-> TRUE]
    ELSE [player |-> pot \div 2, ai |-> pot \div 2, exact |-> Exact(pot, 2)]

\* end_hand_showdown: what each seat receives from the pot
ShowdownPayout(player_score, ai_score, pot) ==
    IF player_score < ai_score THEN [player |-> pot, ai |-> 0, exact |-> TRUE]
    ELSE IF player_score > ai_score THEN [player |-> 0, ai |-> pot, exact |-> TRUE]
    ELSE [player |-> pot \div 2, ai |-> pot \div 2, exact |-> Exact(pot, 2)]

\* mutant: a fold awards only half of the pot
FoldAward_HalfPot(pot) == pot \div 2

\* the chips the non-folding seat receives when a seat folds
FoldAward(pot) == pot

\* the pot a fold leaves in st.session_state.current_pot
PotAfterFold(pot) == pot

\* the pot a showdown leaves in st.session_state.current_pot
PotAfterShowdown(pot) == pot

\* ------------------------------------------------------------ game flow
\* init_game_state(initial_stack=1000, bb=20)
InitGameState ==
    /\ game_active' = FALSE
    /\ game_over' = FALSE
    /\ hand_outcome' = "None"
    /\ player_stack' = INITIAL_STACK * Scale
    /\ ai_stack' = INITIAL_STACK * Scale
    /\ bb' = BIG_BLIND * Scale
    /\ current_pot' = 0
    /\ board' = <<>>
    /\ player_hand' = <<>>
    /\ ai_hand' = <<>>
    /\ round_street' = ""
    /\ to_call' = 0

\* mutant: a hand is refused only when both stacks are empty
InsufficientChips_Both(ps, as) == ps <= 0 /\ as <= 0

\* start_new_hand: "if player_stack <= 0 or ai_stack <= 0"
InsufficientChips(ps, as) == ps <= 0 \/ as <= 0

\* start_new_hand(); cut is the shuffle of the fresh deck.  game_over and
\* hand_outcome are left to the caller.
StartNewHand(cut) ==
    IF InsufficientChips(player_stack, ai_stack)
    THEN /\ game_active' = FALSE
         /\ UNCHANGED <<player_stack, ai_stack, bb, current_pot, board,
                        player_hand, ai_hand, round_street, to_call, hands>>
    ELSE /\ Exact(bb, 2)
         /\ LET all_known == DeckDraw4(cut)
                sb == SmallBlind(bb)
            IN /\ game_active' = TRUE
               /\ player_hand' = SubSeq(all_known, 1, 2)
               /\ ai_hand' = SubSeq(all_known, 3, 4)
               /\ board' = <<>>
               /\ round_street' = "Preflop"
               /\ to_call' = bb
               /\ player_stack' = player_stack - sb
               /\ ai_stack' = ai_stack - bb
               /\ current_pot' = sb + bb
         /\ hands' = hands + 1
         /\ UNCHANGED bb

\* advance_street(), entered with the to_call the handler has set; all selects
\* the samples enumerated
AdvanceStreet(tc, all) ==
    /\ round_street' = NextStreet(round_street)
    /\ IF round_street \in {"Preflop", "Flop", "Turn"}
       THEN LET available_cards == AvailableCards(player_hand, ai_hand, board)
                num_draw == NumDraw(round_street)
            IN /\ IF num_draw > 0 /\ Cardinality(available_cards) >= num_draw
                  THEN \E new_cards \in Samples(available_cards, num_draw, all) :
                           board' = board \o new_cards
                  ELSE board' = board
               /\ to_call' = ToCallAfterStreet
       ELSE /\ to_call' = tc
            /\ UNCHANGED board

\* end_hand_showdown(player_hand, ai_hand, board, pot), entered with stacks
\* ps and as
EndHandShowdown(ps, as, pot) ==
    LET pay == ShowdownPayout(Evaluate(player_hand, board),
                              Evaluate(ai_hand, board), pot)
    IN /\ pay.exact
       /\ player_stack' = ps + pay.player
       /\ ai_stack' = as + pay.ai
       /\ current_pot' = PotAfterShowdown(pot)
       /\ game_over' = TRUE
       /\ hand_outcome' = "None"

\* advance_game_state(), entered with the stacks ps and as, the pot and the
\* to_call the handler has set
AdvanceGameState(ps, as, pot, tc, all) ==
    IF ShowdownReady(round_street, tc)
    THEN /\ EndHandShowdown(ps, as, pot)
         /\ to_call' = tc
         /\ UNCHANGED <<round_street, board>>
    ELSE /\ player_stack' = ps
         /\ ai_stack' = as
         /\ current_pot' = pot
         /\ UNCHANGED <<game_over, hand_outcome>>
         /\ IF tc = 0
            THEN AdvanceStreet(tc, all)
            ELSE /\ to_call' = tc
                 /\ UNCHANGED <<round_street, board>>

\* ------------------------------------------------- the handlers of main()
\* The inputs enumerated.  BettingInputs follows every betting line over a few
\* deals: the cuts 0, 5 and 8 deal a tie, an AI win and a player win.
\* DealingInputs follows every shuffle and every sample of board cards along
\* the check / call line.
BettingInputs == [cuts |-> {0, 5, 8}, all_samples |-> FALSE,
                  equities |-> EquityLevels, bluffs |-> BOOLEAN]
DealingInputs == [cuts |-> 0..(DeckSize - 1), all_samples |-> TRUE,
                  equities |-> {50}, bluffs |-> {FALSE}]

\* calculate_equity is not being applied on its own
NoEstimate == [pc |-> "-"]

NoDecision == [eq |-> 0, pot |-> 0, tc |-> 0, stack |-> 0,
               action |-> "-", amount |-> 0]

\* mutant: the game-over screen does not block the betting area
InHand_IgnoresOver == game_active

\* main(): the betting area is rendered when the game-over screen and the
\* start control have not returned
InHand == game_active /\ ~game_over

\* a betting button is pressed
Press == presses < MaxPresses /\ presses' = presses + 1

\* the values entered in the Bet/Raise number_input: its minimum and its
\* maximum (all-in)
BetChoices(b, tc, stack) ==
    LET min_raise_amount == MinRaise(b, tc)
        max_bet_raise == stack
        input_min_value == Min(min_raise_amount, max_bet_raise)
    IN {input_min_value, max_bet_raise}

\* "Start New Hand (SB/BB)" while no hand is active
StartButton(in) ==
    /\ ~game_over /\ ~game_active
    /\ \E cut \in in.cuts : StartNewHand(cut)
    /\ last_op' = [op |-> "start", amount |-> 0, ai |-> "-", ai_amount |-> 0]
    /\ UNCHANGED <<game_over, hand_outcome, presses, decision, estimate>>

\* mutant: game_over is cleared only when the hand could be dealt
NextHandButton_KeepsOver(in) ==
    /\ game_over
    /\ \E cut \in in.cuts : StartNewHand(cut)
    /\ game_over' = ~game_active'
    /\ hand_outcome' = "None"
    /\ last_op' = [op |-> "start", amount |-> 0, ai |-> "-", ai_amount |-> 0]
    /\ UNCHANGED <<presses, decision, estimate>>

\* "Start New Hand" on the game-over screen
NextHandButton(in) ==
    /\ game_over
    /\ \E cut \in in.cuts : StartNewHand(cut)
    /\ game_over' = FALSE
    /\ hand_outcome' = "None"
    /\ last_op' = [op |-> "start", amount |-> 0, ai |-> "-", ai_amount |-> 0]
    /\ UNCHANGED <<presses, decision, estimate>>

\* "Reset Entire Game (1000 chips)"
ResetButton ==
    /\ ~game_over /\ ~game_active
    /\ player_stack <= 0 \/ ai_stack <= 0
    /\ InitGameState
    /\ last_op' = [op |-> "reset", amount |-> 0, ai |-> "-", ai_amount |-> 0]
    /\ UNCHANGED <<hands, presses, decision, estimate>>

\* "Fold": offered while to_call > 0
PlayerFold ==
    /\ InHand /\ to_call > 0
    /\ Press
    /\ ai_stack' = ai_stack + FoldAward(current_pot)
    /\ current_pot' = PotAfterFold(current_pot)
    /\ game_over' = TRUE
    /\ hand_outcome' = "PlayerFolded"
    /\ last_op' = [op |-> "fold", amount |-> 0, ai |-> "-", ai_amount |-> 0]
    /\ UNCHANGED <<game_active, player_stack, bb, board, player_hand, ai_hand,
                   round_street, to_call, hands, decision, estimate>>

\* The "Check" handler: the button is offered while to_call is not > 0; the
\* AI then checks or bets
CheckHandler(in) ==
    /\ InHand /\ ~(to_call > 0)
    /\ \E eq \in AiEquities(round_street, in.equities),
          bluff \in in.bluffs, bluff2 \in in.bluffs :
         LET ai == GetAiAction(eq, current_pot, to_call, ai_stack, bb, bluff, bluff2)
         IN /\ ai.exact
            /\ last_op' = [op |-> "check", amount |-> 0, ai |-> ai.action,
                            ai_amount |-> ai.amount]
            /\ IF ai.action = "Check"
               THEN AdvanceGameState(player_stack, ai_stack, current_pot, to_call,
                                     in.all_samples)
               ELSE /\ ai_stack' = ai_stack - ai.amount
                    /\ current_pot' = current_pot + ai.amount
                    /\ to_call' = ai.amount
                    /\ UNCHANGED <<player_stack, game_over, hand_outcome,
                                   round_street, board>>
    /\ UNCHANGED <<game_active, bb, player_hand, ai_hand, hands, decision, estimate>>

\* "Check" pressed
PlayerCheck(in) == Press /\ CheckHandler(in)

\* mutant: the call is paid by the caller but reaches the pot twice
CallTransfer_Double(stack, pot, tc) ==
    [stack |-> stack - tc, pot |-> pot + 2 * tc, to_call |-> 0]

\* a call: "stack -= to_call; current_pot += to_call; to_call = 0", for the
\* player and for the AI alike
CallTransfer(stack, pot, tc) ==
    [stack |-> stack - tc, pot |-> pot + tc, to_call |-> 0]

\* The "Call" handler: the button is offered while to_call > 0
CallHandler(in) ==
    /\ InHand /\ to_call > 0
    /\ LET c == CallTransfer(player_stack, current_pot, to_call)
       IN AdvanceGameState(c.stack, ai_stack, c.pot, c.to_call, in.all_samples)
    /\ last_op' = [op |-> "call", amount |-> to_call, ai |-> "-", ai_amount |-> 0]
    /\ UNCHANGED <<game_active, bb, player_hand, ai_hand, hands, decision, estimate>>

\* "Call" pressed
PlayerCall(in) == Press /\ CallHandler(in)

\* "Bet" / "Raise" of new_bet_size chips, and the AI's response
PlayerBetRaise(in) ==
    /\ InHand
    /\ Press
    /\ \E new_bet_size \in BetChoices(bb, to_call, player_stack),
          eq \in AiEquities(round_street, in.equities),
          bluff \in in.bluffs, bluff2 \in in.bluffs :
         LET ps == player_stack - new_bet_size
             pot == current_pot + new_bet_size
             ai == GetAiAction(eq, pot, new_bet_size, ai_stack, bb, bluff, bluff2)
         IN /\ ai.exact
            /\ last_op' = [op |-> "bet", amount |-> new_bet_size, ai |-> ai.action,
                            ai_amount |-> IF ai.action = "Call" THEN new_bet_size
                                          ELSE ai.amount]
            /\ CASE ai.action = "Fold" ->
                      /\ player_stack' = ps + FoldAward(pot)
                      /\ current_pot' = PotAfterFold(pot)
                      /\ game_over' = TRUE
                      /\ hand_outcome' = "AIFolded"
                      /\ to_call' = new_bet_size
                      /\ UNCHANGED <<ai_stack, round_street, board>>
                 [] ai.action = "Call" ->
                      LET c == CallTransfer(ai_stack, pot, new_bet_size)
                      IN AdvanceGameState(ps, c.stack, c.pot, c.to_call,
                                          in.all_samples)
                 [] ai.action = "Raise" ->
                      /\ player_stack' = ps
                      /\ ai_stack' = ai_stack - ai.amount
                      /\ current_pot' = pot + ai.amount
                      /\ to_call' = ai.amount
                      /\ UNCHANGED <<game_over, hand_outcome, round_street, board>>
                 [] OTHER ->
                      /\ player_stack' = ps
                      /\ current_pot' = pot
                      /\ to_call' = new_bet_size
                      /\ UNCHANGED <<ai_stack, game_over, hand_outcome,
                                     round_street, board>>
    /\ UNCHANGED <<game_active, bb, player_hand, ai_hand, hands, decision, estimate>>

\* main(): "if 'game_active' not in st.session_state: init_game_state()"
Init ==
    /\ game_active = FALSE
    /\ game_over = FALSE
    /\ hand_outcome = "None"
    /\ player_stack = INITIAL_STACK * Scale
    /\ ai_stack = INITIAL_STACK * Scale
    /\ bb = BIG_BLIND * Scale
    /\ current_pot = 0
    /\ board = <<>>
    /\ player_hand = <<>>
    /\ ai_hand = <<>>
    /\ round_street = ""
    /\ to_call = 0
    /\ hands = 0
    /\ presses = 0
    /\ last_op = [op |-> "init", amount |-> 0, ai |-> "-", ai_amount |-> 0]
    /\ decision = NoDecision
    /\ estimate = NoEstimate

\* ------------------------------------ get_ai_action applied on its own
DecisionEquities == {0, 20, 30, 40, 45, 50, 75, 80, 100}
DecisionChips == {k * SmallBlind(BIG_BLIND * Scale) : k \in 0..MaxBlinds}

InitAI ==
    /\ game_active = FALSE
    /\ game_over = FALSE
    /\ hand_outcome = "None"
    /\ player_stack = INITIAL_STACK * Scale
    /\ ai_stack = INITIAL_STACK * Scale
    /\ bb = BIG_BLIND * Scale
    /\ current_pot = 0
    /\ board = <<>>
    /\ player_hand = <<>>
    /\ ai_hand = <<>>
    /\ round_street = ""
    /\ to_call = 0
    /\ hands = 0
    /\ presses = 0
    /\ last_op = [op |-> "init", amount |-> 0, ai |-> "-", ai_amount |-> 0]
    /\ \E eq \in DecisionEquities, pot \in DecisionChips, tc \in DecisionChips,
          stack \in DecisionChips :
         decision = [eq |-> eq, pot |-> pot, tc |-> tc, stack |-> stack,
                     action |-> "-", amount |-> 0]
    /\ estimate = NoEstimate

\* get_ai_action(ai_equity, current_pot, to_call, ai_stack) with either
\* outcome of each bluff roll
Decide ==
    /\ decision.action = "-"
    /\ \E bluff \in BOOLEAN, bluff2 \in BOOLEAN :
         LET ai == GetAiAction(decision.eq, decision.pot, decision.tc,
                               decision.stack, bb, bluff, bluff2)
         IN /\ ai.exact
            /\ decision' = [decision EXCEPT !.action = ai.action,
                                            !.amount = ai.amount]
    /\ UNCHANGED <<gameVars, estimate>>

SpecAI == InitAI /\ [][Decide]_vars

Next ==
    \/ StartButton(BettingInputs)
    \/ NextHandButton(BettingInputs)
    \/ ResetButton
    \/ PlayerFold
    \/ PlayerCheck(BettingInputs)
    \/ PlayerCall(BettingInputs)
    \/ PlayerBetRaise(BettingInputs)

Spec == Init /\ [][Next]_vars

\* Every shuffle and every sample of board cards, along the check / call line.
NextDeal ==
    \/ StartButton(DealingInputs)
    \/ NextHandButton(DealingInputs)
    \/ PlayerCheck(DealingInputs)
    \/ PlayerCall(DealingInputs)

SpecDeal == Init /\ [][NextDeal]_vars

\* ------------------------------------------------- the passive player
\* The player who presses Check when it is offered and Call otherwise, for one
\* hand.  The hand starts from stacks earlier hands can leave: the AI holds a
\* few big blinds or its initial stack, the player the rest of the chips.
\* calculate_equity is wrapped in st.cache_data, so while the AI's hand and the
\* board stay the same it reports the same equity at every press: decision.eq
\* holds the equity it reports during this hand.  The presses are not counted.
PassiveAiStacks ==
    {k * BIG_BLIND * Scale : k \in 1..MaxBlinds} \cup {INITIAL_STACK * Scale}

PassiveInputs == [BettingInputs EXCEPT !.equities = {decision.eq}]

InitPassive ==
    /\ game_active = FALSE
    /\ game_over = FALSE
    /\ hand_outcome = "None"
    /\ ai_stack \in PassiveAiStacks
    /\ player_stack = 2 * INITIAL_STACK * Scale - ai_stack
    /\ bb = BIG_BLIND * Scale
    /\ current_pot = 0
    /\ board = <<>>
    /\ player_hand = <<>>
    /\ ai_hand = <<>>
    /\ round_street = ""
    /\ to_call = 0
    /\ hands = 0
    /\ presses = 0
    /\ last_op = [op |-> "init", amount |-> 0, ai |-> "-", ai_amount |-> 0]
    /\ \E eq \in EquityLevels : decision = [NoDecision EXCEPT !.eq = eq]
    /\ estimate = NoEstimate

PassiveStart == hands = 0 /\ StartButton(PassiveInputs)
PassiveCheck == CheckHandler(PassiveInputs) /\ UNCHANGED presses
PassiveCall == CallHandler(PassiveInputs) /\ UNCHANGED presses

NextPassive ==
    \/ PassiveStart
    \/ PassiveCheck
    \/ PassiveCall

\* The player keeps pressing: a button that stays offered is pressed.
SpecPassive ==
    /\ InitPassive
    /\ [][NextPassive]_vars
    /\ WF_vars(PassiveStart) /\ WF_vars(PassiveCheck) /\ WF_vars(PassiveCall)

\* ---------------------------------------------------- the short stack
\* Every betting line of a game in which the player is down to a few small
\* blinds, the AI holding the rest of the chips.
ShortStacks == {k * SmallBlind(BIG_BLIND * Scale) : k \in 1..MaxBlinds}

InitShort ==
    /\ game_active = FALSE
    /\ game_over = FALSE
    /\ hand_outcome = "None"
    /\ player_stack \in ShortStacks
    /\ ai_stack = 2 * INITIAL_STACK * Scale - player_stack
    /\ bb = BIG_BLIND * Scale
    /\ current_pot = 0
    /\ board = <<>>
    /\ player_hand = <<>>
    /\ ai_hand = <<>>
    /\ round_street = ""
    /\ to_call = 0
    /\ hands = 0
    /\ presses = 0
    /\ last_op = [op |-> "init", amount |-> 0, ai |-> "-", ai_amount |-> 0]
    /\ decision = NoDecision
    /\ estimate = NoEstimate

SpecShort == InitShort /\ [][Next]_vars

\* ================================================== the equity estimator
\* ALL_CARDS_STR: the 52 cards in the order create_all_cards builds them
\* (rank-major over RANKS = 2..A, suits s, h, d, c); a card is its position.
ALL_CARDS_STR == 1..(NumRanks * NumSuits)

\* Card.new(rank + suit): rank 2..14 (14 is the ace), suit 0..3 (s, h, d, c)
CardOf(rank, suit) == (rank - 2) * NumSuits + suit + 1
RankOf(c) == (c - 1) \div NumSuits + 2
SuitOf(c) == (c - 1) % NumSuits
Ace == NumRanks + 1
Base == NumRanks + 2

MaxOf(S) == CHOOSE m \in S : \A x \in S : x <= m

\* the k highest ranks of R as a number of k digits in base Base
RECURSIVE TopRanks(_, _)
TopRanks(R, k) ==
    IF k = 0 \/ R = {} THEN 0
    ELSE MaxOf(R) * Base ^ (k - 1) + TopRanks(R \ {MaxOf(R)}, k - 1)

RanksOf(S) == {RankOf(c) : c \in S}

\* the ranks of R held at least n times among the cards S
WithCount(S, R, n) ==
    {r \in R : Cardinality({c \in S : RankOf(c) = r}) >= n}

\* the top rank of the best five-rank run in R (the ace also counts low),
\* 0 if there is none
StraightHigh(R) ==
    LET low == IF Ace \in R THEN R \cup {1} ELSE R
        highs == {h \in {r \in low : r >= 5} : \A k \in 1..4 : (h - k) \in low}
    IN IF highs = {} THEN 0 ELSE MaxOf(highs)

\* the cards of the suit held at least five times, {} if there is none
FlushCards(S) ==
    UNION {{c \in S : SuitOf(c) = s} :
             s \in {t \in 0..(NumSuits - 1) :
                      Cardinality({c \in S : SuitOf(c) = t}) >= 5}}

\* The best five-card poker hand among the cards S, as a number that grows
\* with the hand: the category (8 straight flush, 7 four of a kind, 6 full
\* house, 5 flush, 4 straight, 3 three of a kind, 2 two pair, 1 pair, 0 high
\* card) followed by the ranks that break ties within it.
HandStrength(S) ==
    LET R == RanksOf(S)
        F == RanksOf(FlushCards(S))
        two == WithCount(S, R, 2)
        three == WithCount(S, two, 3)
        four == WithCount(S, three, 4)
        Pack(cat, v) == cat * Base ^ 5 + v
    IN IF StraightHigh(F) > 0 THEN Pack(8, StraightHigh(F))
       ELSE IF four # {}
       THEN LET q == MaxOf(four)
            IN Pack(7, q * Base + TopRanks(R \ {q}, 1))
       ELSE IF three # {} /\ (two \ {MaxOf(three)}) # {}
       THEN LET t == MaxOf(three)
            IN Pack(6, t * Base + MaxOf(two \ {t}))
       ELSE IF F # {} THEN Pack(5, TopRanks(F, 5))
       ELSE IF StraightHigh(R) > 0 THEN Pack(4, StraightHigh(R))
       ELSE IF three # {}
       THEN LET t == MaxOf(three)
            IN Pack(3, t * Base ^ 2 + TopRanks(R \ {t}, 2))
       ELSE IF Cardinality(two) >= 2
       THEN LET p1 == MaxOf(two)
                p2 == MaxOf(two \ {p1})
            IN Pack(2, (p1 * Base + p2) * Base + TopRanks(R \ {p1, p2}, 1))
       ELSE IF two # {}
       THEN LET p == MaxOf(two)
            IN Pack(1, p * Base ^ 3 + TopRanks(R \ {p}, 3))
       ELSE Pack(0, TopRanks(R, 5))

\* Evaluator().evaluate(cards, board) of the deuces library: the rank of the
\* best five-card hand, a smaller number for a stronger hand
EvaluatorEvaluate(cards, brd) ==
    9 * Base ^ 5 - HandStrength(SeqToSet(cards) \cup SeqToSet(brd))

\* unknown_pool, in the order of full_deck_int (ascending card numbers)
UnknownPool(hand, brd) == ALL_CARDS_STR \ (SeqToSet(hand) \cup SeqToSet(brd))

\* needed_total = needed_for_opp + needed_for_board
NeededTotal(brd) == 2 + (5 - Len(brd))

\* mutant: the combinations that hold the first card of the pool are left out
RECURSIVE Combinations_SkipFirst(_, _)
Combinations_SkipFirst(pool, k) ==
    IF k = 0 THEN {<<>>}
    ELSE UNION {{t \o <<a>> : t \in Combinations_SkipFirst({x \in pool : x < a}, k - 1)} :
                  a \in {x \in pool : \E y \in pool : y < x}}

\* itertools.combinations(unknown_pool, k): the k-tuples of pool cards in the
\* order of the pool
RECURSIVE Combinations(_, _)
Combinations(pool, k) ==
    IF k = 0 THEN {<<>>}
    ELSE UNION {{t \o <<a>> : t \in Combinations({x \in pool : x < a}, k - 1)} :
                  a \in pool}

\* mutant: a win is counted twice
Tally_DoubleWin(hand, brd, drawn_cards) ==
    LET final_board == brd \o SubSeq(drawn_cards, 3, Len(drawn_cards))
        player_score == EvaluatorEvaluate(hand, final_board)
        opponent_score == EvaluatorEvaluate(SubSeq(drawn_cards, 1, 2), final_board)
    IN IF player_score < opponent_score THEN [wins |-> 2, ties |-> 0]
       ELSE IF player_score = opponent_score THEN [wins |-> 0, ties |-> 1]
       ELSE [wins |-> 0, ties |-> 0]

\* One trial: opponent_hand = drawn_cards[:2], remaining_board =
\* drawn_cards[2:], both hands scored on the final board; the increments of
\* wins and ties.
Tally(hand, brd, drawn_cards) ==
    LET final_board == brd \o SubSeq(drawn_cards, 3, Len(drawn_cards))
        player_score == EvaluatorEvaluate(hand, final_board)
        opponent_score == EvaluatorEvaluate(SubSeq(drawn_cards, 1, 2), final_board)
    IN IF player_score < opponent_score THEN [wins |-> 1, ties |-> 0]
       ELSE IF player_score = opponent_score THEN [wins |-> 0, ties |-> 1]
       ELSE [wins |-> 0, ties |-> 0]

\* the sum of f[x] over the set D
RECURSIVE SumOver(_, _)
SumOver(f, D) ==
    IF D = {} THEN 0
    ELSE LET x == CHOOSE y \in D : TRUE IN f[x] + SumOver(f, D \ {x})

\* enumerate_equity(player_hand_int, board_int): the equity as the fraction
\* num / den = (wins + 0.5 * ties) / total_sims, and total_sims
EnumerateEquity(hand, brd) ==
    LET unknown_pool == UnknownPool(hand, brd)
        scored == {<<d, Tally(hand, brd, d)>> :
                     d \in Combinations(unknown_pool, NeededTotal(brd))}
        total_sims == Cardinality(scored)
        incs == {s[2] : s \in scored}
        count == [t \in incs |-> Cardinality({s \in scored : s[2] = t})]
        wins == SumOver([t \in incs |-> t.wins * count[t]], incs)
        ties == SumOver([t \in incs |-> t.ties * count[t]], incs)
    IN IF total_sims = 0
       THEN [num |-> 0, den |-> 1, total_sims |-> 0, wins |-> 0, ties |-> 0]
       ELSE [num |-> 2 * wins + ties, den |-> 2 * total_sims,
             total_sims |-> total_sims, wins |-> wins, ties |-> ties]

\* random.sample(unknown_pool, n): the draws enumerated.  A draw takes every
\* stride-th card of the pool from an offset, upwards or downwards: runs of
\* neighbouring cards (pairs, trips, quads) and of one suit (flushes,
\* straight flushes on the board), so that wins, ties and losses all occur.
SampleOffsets == {0, 9, 20}
SampleStrides == {1, NumSuits}
RandomSample(pool, n) ==
    LET seq == SetToSeq(pool)
        fits == {p \in SampleOffsets \X SampleStrides :
                   p[1] + (n - 1) * p[2] + 1 <= Len(seq)}
    IN UNION {{[j \in 1..n |-> seq[p[1] + (j - 1) * p[2] + 1]],
               [j \in 1..n |-> seq[Len(seq) - p[1] - (j - 1) * p[2]]]} :
                p \in fits}

\* The hands and boards calculate_equity is applied to: pocket aces, seven-
\* deuce offsuit and a one-card hand; the board As Ac Kd 7d 2c and its
\* prefixes of 0, 3 and 4 cards.
EstimateHands ==
    {<<CardOf(Ace, 1), CardOf(Ace, 2)>>, <<CardOf(7, 1), CardOf(2, 0)>>,
     <<CardOf(Ace, 1)>>}
RiverBoard ==
    <<CardOf(Ace, 0), CardOf(Ace, 3), CardOf(Ace - 1, 2), CardOf(7, 2), CardOf(2, 3)>>
EstimateBoards == {SubSeq(RiverBoard, 1, n) : n \in {0, 3, 4, 5}}

\* "if num_board >= 4: enumerate_equity(...)": only in the standalone
\* calculator (poker.py); the game's calculate_equity (pokergame.py) has no
\* such branch
UsesEnumeration(fn, brd) == fn = "poker" /\ Len(brd) >= 4

InitEquity ==
    /\ game_active = FALSE
    /\ game_over = FALSE
    /\ hand_outcome = "None"
    /\ player_stack = INITIAL_STACK * Scale
    /\ ai_stack = INITIAL_STACK * Scale
    /\ bb = BIG_BLIND * Scale
    /\ current_pot = 0
    /\ board = <<>>
    /\ player_hand = <<>>
    /\ ai_hand = <<>>
    /\ round_street = ""
    /\ to_call = 0
    /\ hands = 0
    /\ presses = 0
    /\ last_op = [op |-> "init", amount |-> 0, ai |-> "-", ai_amount |-> 0]
    /\ decision = NoDecision
    /\ \E fn \in {"poker", "pokergame"}, hand \in EstimateHands,
          brd \in EstimateBoards :
         estimate = [pc |-> "call", fn |-> fn, hand |-> hand, board |-> brd,
                     simulations |-> -1, i |-> 0, wins |-> 0, ties |-> 0,
                     num |-> 0, den |-> 1, method |-> "-", trials |-> 0]

\* "if len(player_hand_int) != 2: return 0.0, 'N/A'"
EquityNotApplicable ==
    /\ estimate.pc = "call"
    /\ Len(estimate.hand) # 2
    /\ estimate' = [estimate EXCEPT !.pc = "done", !.num = 0, !.den = 1,
                                    !.method = "N/A"]
    /\ UNCHANGED <<gameVars, decision>>

\* poker.py: "return equity, f'Exact Calculation ({total_sims} iterations)'"
EquityExact ==
    /\ estimate.pc = "call"
    /\ Len(estimate.hand) = 2
    /\ UsesEnumeration(estimate.fn, estimate.board)
    /\ \E e \in {EnumerateEquity(estimate.hand, estimate.board)} :
         estimate' = [estimate EXCEPT !.pc = "done", !.num = e.num,
                                      !.den = e.den, !.wins = e.wins,
                                      !.ties = e.ties,
                                      !.method = "Exact Calculation",
                                      !.trials = e.total_sims]
    /\ UNCHANGED <<gameVars, decision>>

\* entering "for _ in range(simulations)" with wins = 0 and ties = 0; the
\* simulation budget is drawn here, where the code first reads it (-1 until
\* then)
EquityLoop ==
    /\ estimate.pc = "call"
    /\ Len(estimate.hand) = 2
    /\ ~UsesEnumeration(estimate.fn, estimate.board)
    /\ \E simulations \in 0..MaxSims :
         estimate' = [estimate EXCEPT !.pc = "loop", !.simulations = simulations]
    /\ UNCHANGED <<gameVars, decision>>

\* one pass of the Monte Carlo loop
EquityTrial ==
    /\ estimate.pc = "loop"
    /\ estimate.i < estimate.simulations
    /\ LET unknown_pool == UnknownPool(estimate.hand, estimate.board)
           needed_total == NeededTotal(estimate.board)
       IN IF Cardinality(unknown_pool) < needed_total
          THEN estimate' = [estimate EXCEPT !.i = @ + 1]
          ELSE \E drawn_cards \in RandomSample(unknown_pool, needed_total) :
                  \E t \in {Tally(estimate.hand, estimate.board, drawn_cards)} :
                     estimate' = [estimate EXCEPT !.i = @ + 1,
                                                  !.wins = @ + t.wins,
                                                  !.ties = @ + t.ties]
    /\ UNCHANGED <<gameVars, decision>>

\* "equity = (wins + 0.5 * ties) / simulations; return equity, f'Monte Carlo
\* ({simulations} simulations)'": the division raises ZeroDivisionError when
\* simulations is 0
EquityReturn ==
    /\ estimate.pc = "loop"
    /\ estimate.i = estimate.simulations
    /\ IF estimate.simulations = 0
       THEN estimate' = [estimate EXCEPT !.pc = "raised"]
       ELSE estimate' = [estimate EXCEPT !.pc = "done",
                                         !.num = 2 * estimate.wins + estimate.ties,
                                         !.den = 2 * estimate.simulations,
                                         !.method = "Monte Carlo",
                                         !.trials = estimate.simulations]
    /\ UNCHANGED <<gameVars, decision>>

NextEquity ==
    \/ EquityNotApplicable
    \/ EquityExact
    \/ EquityLoop
    \/ EquityTrial
    \/ EquityReturn

SpecEquity == InitEquity /\ [][NextEquity]_vars

\* ================================================================ claims
AllCards == player_hand \o ai_hand \o board
TotalChips == 2 * INITIAL_STACK * Scale
HandStarted == hands > 0
FoldStepNext == last_op'.op = "fold" \/ (last_op'.op = "bet" /\ last_op'.ai = "Fold")
ShowdownStepNext == ~game_over /\ game_over' /\ hand_outcome' = "None"
ShowdownOver == game_over /\ hand_outcome = "None"
StreetAdvancesNext ==
    round_street' # round_street /\ round_street' \in {"Flop", "Turn", "River"}

\* C1: at every observation point of a hand, also right after a fold and right
\* after a showdown, player_stack + ai_stack + current_pot equals the sum of
\* the two stacks at game reset.
C1_Conservation ==
    HandStarted => player_stack + ai_stack + current_pot = TotalChips

\* C2: whenever a seat folds, the other seat's stack grows by the entire pot,
\* the pot becomes 0 and the hand is over with the fold narrative recorded.
C2_FoldResolution ==
    [][FoldStepNext =>
         /\ game_over' /\ hand_outcome' # "None"
         /\ current_pot' = 0
         /\ IF last_op'.op = "fold"
            THEN ai_stack' = ai_stack + current_pot /\ player_stack' = player_stack
            ELSE player_stack' = player_stack + current_pot /\ ai_stack' = ai_stack]_vars

\* C3: start_new_hand with both stacks > 0 takes bb/2 from the player and bb
\* from the AI, makes the pot bb/2 + bb and to_call bb, sets the street to
\* Preflop with an empty board, deals two cards to each seat and makes the
\* hand active; from stacks (1000, 1000) and bb = 20 the pot is 30 and
\* to_call is 20.
C3_StartNewHand ==
    [][(last_op'.op = "start" /\ player_stack > 0 /\ ai_stack > 0) =>
         /\ 2 * (player_stack - player_stack') = bb
         /\ ai_stack - ai_stack' = bb
         /\ 2 * current_pot' = 3 * bb
         /\ to_call' = bb
         /\ round_street' = "Preflop"
         /\ board' = <<>>
         /\ Len(player_hand') = 2 /\ Len(ai_hand') = 2
         /\ game_active' /\ ~game_over'
         /\ (player_stack = 1000 * Scale /\ ai_stack = 1000 * Scale /\ bb = 20 * Scale
               => current_pot' = 30 * Scale /\ to_call' = 20 * Scale)]_vars

C3_Witness ==
    /\ last_op.op = "start" /\ hands = 2
    /\ game_active /\ ~game_over
    /\ current_pot = 30 * Scale /\ to_call = 20 * Scale
    /\ Len(player_hand) = 2 /\ Len(ai_hand) = 2 /\ board = <<>>

\* C4: in every reachable state both stacks, the pot and to_call are >= 0.
C4_NonNegative ==
    player_stack >= 0 /\ ai_stack >= 0 /\ current_pot >= 0 /\ to_call >= 0

\* C5: for every equity, pot, to_call and stack >= 0 and every bluff roll, the
\* amount get_ai_action returns does not exceed the AI's stack.
C5_AmountWithinStack ==
    decision.action # "-" => decision.amount <= decision.stack

\* C6 (as stated): the cards of player_hand, ai_hand and board are pairwise
\* distinct and number at most 7.
C6_DistinctAtMostSeven ==
    /\ \A i, j \in 1..Len(AllCards) : i # j => AllCards[i] # AllCards[j]
    /\ Len(AllCards) <= 7

\* C6 (amended): the cards of player_hand, ai_hand and board are pairwise
\* distinct and number at most 9 (2 + 2 + at most 5); no card dealt by
\* advance_street equals a hole card or an earlier board card.
C6_DistinctAtMostNine ==
    /\ \A i, j \in 1..Len(AllCards) : i # j => AllCards[i] # AllCards[j]
    /\ Len(AllCards) <= 9

C6_Witness ==
    /\ round_street = "River" /\ Len(board) = 5
    /\ Len(AllCards) = 9 /\ Cardinality(SeqToSet(AllCards)) = 9

\* C7: a hand ends by showdown only on the River with to_call = 0 and a
\* five-card board; on an earlier street, or with a bet outstanding, no
\* sequence of actions reaches showdown.
C7_ShowdownGating ==
    ShowdownOver => round_street = "River" /\ to_call = 0 /\ Len(board) = 5

C7_Witness ==
    ShowdownOver /\ round_street = "River" /\ last_op.op = "call"

\* C8: at showdown the seat with the strictly lower score receives the full
\* pot and the other seat's stack is unchanged; on equal scores each seat
\* receives exactly half the pot; the hand becomes over by showdown.  The pot
\* is the pot before the press plus the chips the press moved into it.
C8_ShowdownAward ==
    [][ShowdownStepNext =>
         LET pot == current_pot + last_op'.amount + last_op'.ai_amount
             player_gain == player_stack' - (player_stack - last_op'.amount)
             ai_gain == ai_stack' - (ai_stack - last_op'.ai_amount)
             player_score == Evaluate(player_hand, board)
             ai_score == Evaluate(ai_hand, board)
         IN /\ player_score < ai_score => player_gain = pot /\ ai_gain = 0
            /\ player_score > ai_score => ai_gain = pot /\ player_gain = 0
            /\ player_score = ai_score => 2 * player_gain = pot /\ 2 * ai_gain = pot
            /\ game_over' /\ hand_outcome' = "None"]_vars

C8_Witness ==
    /\ ShowdownOver
    /\ Evaluate(player_hand, board) > Evaluate(ai_hand, board)
    /\ ai_stack > INITIAL_STACK * Scale

\* C9: the street moves one step at a time in the order Preflop, Flop, Turn,
\* River; it becomes Preflop again only through start_new_hand (and is cleared
\* only by the game reset).
C9_StreetOrder ==
    [][round_street' # round_street =>
         \/ round_street = "Preflop" /\ round_street' = "Flop"
         \/ round_street = "Flop" /\ round_street' = "Turn"
         \/ round_street = "Turn" /\ round_street' = "River"
         \/ round_street' = "Preflop" /\ last_op'.op = "start"
         \/ round_street' = "" /\ last_op'.op = "reset"]_vars

C9_Witness ==
    round_street = "River" /\ InHand /\ Len(board) = 5

\* C10: the street advances only on a press that closes the betting (the
\* player calls, the AI calls the player's bet, or both check with
\* to_call = 0), and right after the advance to_call = 0.
C10_AdvanceOnlyWhenClosed ==
    [][StreetAdvancesNext =>
         /\ to_call' = 0
         /\ \/ last_op'.op = "call"
            \/ last_op'.op = "bet" /\ last_op'.ai = "Call"
            \/ last_op'.op = "check" /\ last_op'.ai = "Check" /\ to_call = 0]_vars

C10_Witness ==
    round_street = "Turn" /\ to_call = 0 /\ last_op.op = "bet" /\ last_op.ai = "Call"

\* C11: once a hand is over (by fold or by showdown) the only step taken is
\* start_new_hand: no betting button is accepted, and until then the stacks,
\* the pot, the board, the street and to_call keep their values.
C11_Terminal ==
    [][game_over => (last_op'.op = "start" /\ presses' = presses)]_vars

C11_Witness ==
    game_over /\ hand_outcome # "None" /\ hands = 2 /\ round_street = "Flop"

\* C12: start_new_hand invoked with a stack <= 0 fails: no cards are dealt, no
\* blinds are posted, stacks and pot keep their values and the hand is not
\* active; while no hand is active and a stack is <= 0 the stacks change only
\* through init_game_state.
C12_StartFailsWithoutChips ==
    [][/\ (last_op'.op = "start" /\ (player_stack <= 0 \/ ai_stack <= 0)) =>
             /\ ~game_active'
             /\ hands' = hands
             /\ UNCHANGED <<player_stack, ai_stack, current_pot, player_hand,
                            ai_hand, board, round_street, to_call>>
       /\ (~game_active /\ ~game_over /\ (player_stack <= 0 \/ ai_stack <= 0)) =>
             \/ last_op'.op = "reset"
             \/ ~game_active' /\ UNCHANGED <<player_stack, ai_stack>>]_vars

C12_Witness ==
    /\ last_op.op = "start" /\ ~game_active /\ ~game_over
    /\ ai_stack <= 0 /\ player_stack > 0 /\ hands = 1

\* C13 (as stated): once a hand has started, exactly one of game_active and
\* game_over is true.
C13_ExactlyOneFlag ==
    HandStarted => (game_active /\ ~game_over) \/ (~game_active /\ game_over)

\* C13 (amended): once a hand has started, game_over is true only while
\* game_active is true: a hand in play has game_active alone, a hand finished
\* by fold or showdown has both flags.
C13_OverImpliesActive ==
    HandStarted => /\ game_over => game_active
                   /\ (last_op.op \in {"fold", "call", "check", "bet"}) => game_active

C13_Witness ==
    game_over /\ game_active /\ hand_outcome = "None" /\ round_street = "River"

\* A betting button has been handled in this step.
Pressed == presses' = presses + 1

\* C14: every Bet or Raise by either seat is at least
\* min_raise = max(big_blind, 2 * to_call) unless it is the seat's whole stack,
\* is at most the seat's stack, moves exactly that amount from the seat's stack
\* to the pot and sets to_call to that amount.
C14_BetRaiseLegal ==
    [][/\ (Pressed /\ last_op'.op = "bet") =>
             /\ \/ last_op'.amount >= MinRaise(bb, to_call)
                \/ last_op'.amount = player_stack
             /\ last_op'.amount <= player_stack
             /\ last_op'.ai \notin {"Fold", "Call"} =>
                    player_stack' = player_stack - last_op'.amount
       /\ (Pressed /\ last_op'.op = "bet" /\ last_op'.ai = "Raise") =>
             /\ \/ last_op'.ai_amount >= MinRaise(bb, last_op'.amount)
                \/ last_op'.ai_amount = ai_stack
             /\ last_op'.ai_amount <= ai_stack
             /\ ai_stack' = ai_stack - last_op'.ai_amount
             /\ current_pot' = current_pot + last_op'.amount + last_op'.ai_amount
             /\ to_call' = last_op'.ai_amount
       /\ (Pressed /\ last_op'.op = "check" /\ last_op'.ai = "Bet") =>
             /\ \/ last_op'.ai_amount >= MinRaise(bb, to_call)
                \/ last_op'.ai_amount = ai_stack
             /\ last_op'.ai_amount <= ai_stack
             /\ ai_stack' = ai_stack - last_op'.ai_amount
             /\ current_pot' = current_pot + last_op'.ai_amount
             /\ to_call' = last_op'.ai_amount]_vars

\* The stacks after a handler that was entered with stacks ps and as and pot
\* pot: as they are, or with the pot awarded when the call closed the River.
C15_Settled(ps, as, pot) ==
    IF game_over'
    THEN \E pay \in {<<pot, 0>>, <<0, pot>>, <<pot \div 2, pot \div 2>>} :
            player_stack' = ps + pay[1] /\ ai_stack' = as + pay[2]
    ELSE player_stack' = ps /\ ai_stack' = as

\* C15: a Call by either seat moves exactly to_call chips from the caller's
\* stack to the pot, leaves the other seat's stack as it was and resets to_call
\* to 0 (on the River the same handler then awards the pot at showdown).
C15_CallTransfersToCall ==
    [][/\ (Pressed /\ last_op'.op = "call") =>
             /\ last_op'.amount = to_call
             /\ current_pot' = current_pot + to_call
             /\ to_call' = 0
             /\ C15_Settled(player_stack - to_call, ai_stack,
                            current_pot + to_call)
       /\ (Pressed /\ last_op'.op = "bet" /\ last_op'.ai = "Call") =>
             /\ last_op'.ai_amount = last_op'.amount
             /\ current_pot' = current_pot + 2 * last_op'.amount
             /\ to_call' = 0
             /\ C15_Settled(player_stack - last_op'.amount,
                            ai_stack - last_op'.amount,
                            current_pot + 2 * last_op'.amount)]_vars

C15_Witness ==
    /\ last_op.op = "bet" /\ last_op.ai = "Call" /\ last_op.amount > 0
    /\ to_call = 0 /\ ~game_over /\ round_street = "Turn"

\* C16: Check is performed only when to_call = 0, by the player and by the AI,
\* and a Check changes neither stack nor the pot (unless it closes the River).
C16_CheckOnlyAtZero ==
    [][(Pressed /\ last_op'.op = "check") =>
          /\ to_call = 0
          /\ last_op'.ai = "Check" =>
                 /\ current_pot' = current_pot
                 /\ C15_Settled(player_stack, ai_stack, current_pot)]_vars

\* get_ai_action has answered a bet whose pot odds equal the equity exactly,
\* with required_equity >= call_threshold.
AtPotOdds ==
    /\ decision.action # "-"
    /\ decision.tc > 0
    /\ decision.eq * (decision.pot + decision.tc) = 100 * decision.tc
    /\ decision.eq >= CALL_THRESHOLD

\* C17 (as stated): with to_call > 0 and equity exactly equal to
\* required_equity >= call_threshold, the action is Call and never Fold.
C17_CallAtPotOdds ==
    AtPotOdds => decision.action = "Call"

\* C17 (amended): with to_call > 0 and equity exactly equal to
\* required_equity >= call_threshold, the action is never Fold: it is Call
\* when the equity is below raise_threshold and Raise from raise_threshold on.
C17_CallOrRaiseAtPotOdds ==
    AtPotOdds => decision.action = IF decision.eq >= RAISE_THRESHOLD
                                   THEN "Raise" ELSE "Call"

C17_Witness ==
    AtPotOdds /\ decision.action = "Call" /\ decision.eq < RAISE_THRESHOLD

\* calculate_equity has returned a (value, tag) pair for a two-card hand.
Estimated == estimate.pc = "done" /\ Len(estimate.hand) = 2

\* C18: the estimator uses exact enumeration when the board has 4 or 5 cards
\* and Monte Carlo sampling when it has 0 or 3 cards, as the returned tag
\* shows, in the game's estimator as in the standalone calculator; exact
\* enumeration is never used with more than one board card missing.
C18_MethodSwitch ==
    Estimated =>
       /\ Len(estimate.board) \in {4, 5} => estimate.method = "Exact Calculation"
       /\ Len(estimate.board) \in {0, 3} => estimate.method = "Monte Carlo"
       /\ estimate.method = "Exact Calculation" => 5 - Len(estimate.board) <= 1

\* the number of k-element subsets of an n-element set
RECURSIVE Binomial(_, _)
Binomial(n, k) == IF k = 0 THEN 1 ELSE (n * Binomial(n - 1, k - 1)) \div k

\* the hand beats every two-card opponent hand from the unknown pool on the
\* board
BeatsEveryOpponent(hand, brd) ==
    \A a, b \in UnknownPool(hand, brd) :
       a # b => EvaluatorEvaluate(hand, brd) < EvaluatorEvaluate(<<a, b>>, brd)

\* C19: in exact mode the reported trial count is the number of combinations
\* of 7 - |board| cards from the 52 - 2 - |board| unknown cards, 990 on a
\* five-card and 15180 on a four-card board; a hand that beats every opponent
\* hand on a river board has equity exactly 1.
C19_ExactTrialCount ==
    (Estimated /\ estimate.method = "Exact Calculation") =>
       /\ estimate.trials =
             Binomial(NumRanks * NumSuits - 2 - Len(estimate.board),
                      7 - Len(estimate.board))
       /\ Len(estimate.board) = 5 => estimate.trials = 990
       /\ Len(estimate.board) = 4 => estimate.trials = 15180
       /\ (Len(estimate.board) = 5
             /\ BeatsEveryOpponent(estimate.hand, estimate.board)) =>
                estimate.num = estimate.den

C19_Witness ==
    /\ Estimated /\ estimate.method = "Exact Calculation"
    /\ Len(estimate.board) = 5 /\ estimate.trials = 990
    /\ estimate.wins = 990 /\ estimate.num = estimate.den

\* C20: the equity returned is in [0, 1] in exact and in sampled mode, and
\* wins + ties never exceeds the divisor used, for every hand, board and
\* simulation budget.
C20_EquityInUnitInterval ==
    /\ estimate.pc = "done" =>
          /\ estimate.den > 0
          /\ 0 <= estimate.num /\ estimate.num <= estimate.den
          /\ estimate.method # "N/A" =>
                /\ estimate.den = 2 * estimate.trials
                /\ estimate.wins + estimate.ties <= estimate.trials
    /\ estimate.pc = "loop" =>
          /\ estimate.wins + estimate.ties <= estimate.i
          /\ estimate.i <= estimate.simulations

C20_Witness ==
    /\ estimate.pc = "done" /\ estimate.method = "Monte Carlo"
    /\ estimate.simulations = MaxSims
    /\ estimate.wins > 0 /\ estimate.ties > 0

\* C21: in sampled mode the divisor counts the completed trials only, and when
\* no trial completes (a simulation budget of 0 included) the estimator
\* returns equity 0 with the N/A tag: it neither raises nor reports a Monte
\* Carlo result.
C21_ZeroTrialsDegenerate ==
    /\ estimate.pc # "raised"
    /\ (Estimated /\ estimate.simulations = 0) =>
          estimate.method = "N/A" /\ estimate.num = 0
    /\ (Estimated /\ estimate.method = "Monte Carlo") => estimate.trials > 0

\* the number of board cards a street shows
BoardLen(street) ==
    CASE street = "Flop" -> 3
      [] street = "Turn" -> 4
      [] street = "River" -> 5
      [] OTHER -> 0

\* C22: the board length is determined by the street (Preflop 0, Flop 3,
\* Turn 4, River 5); the board is append-only, with 3 cards added on
\* Preflop -> Flop and 1 on Flop -> Turn and on Turn -> River, and earlier
\* board cards never change within a hand (start_new_hand and
\* init_game_state empty the board).
C22_BoardFollowsStreet ==
    [][/\ Len(board) = BoardLen(round_street)
       /\ Len(board') = BoardLen(round_street')
       /\ last_op'.op \notin {"start", "reset"} =>
             /\ Len(board') >= Len(board)
             /\ SubSeq(board', 1, Len(board)) = board
             /\ round_street' # round_street =>
                   /\ round_street' = NextStreet(round_street)
                   /\ Len(board') - Len(board) =
                         IF round_street = "Preflop" THEN 3 ELSE 1
             /\ round_street' = round_street => board' = board
       /\ (last_op'.op = "start" /\ game_active') =>
             board' = <<>> /\ round_street' = "Preflop"]_vars

C22_Witness ==
    /\ round_street = "River" /\ Len(board) = 5 /\ ~game_over /\ hands = 2

\* Every outcome on a four-card board: an opponent hand {a, b} and a river
\* card r, all from the unknown pool; the increments of wins and ties of each.
Outcomes(hand, brd) ==
    LET pool == UnknownPool(hand, brd)
    IN {<<a, b, r, Tally(hand, brd, <<a, b, r>>)>> :
           <<a, b, r>> \in {t \in pool \X pool \X pool :
                              t[1] < t[2] /\ t[3] \notin {t[1], t[2]}}}

\* twice the number of outcomes won plus the number tied, and the number of
\* outcomes: the win probability (ties as half) is the first over twice the
\* second
WinProbability(hand, brd) ==
    LET all == Outcomes(hand, brd)
    IN [num |-> 2 * Cardinality({o \in all : o[4].wins = 1})
                  + Cardinality({o \in all : o[4].ties = 1}),
        den |-> 2 * Cardinality(all), outcomes |-> Cardinality(all)]

\* C23: on a four-card board exact enumeration scores every pair (opponent
\* hand, river card) from the unknown pool exactly once, so the exact equity
\* is the win probability (ties as half) against a uniformly random opponent
\* hand and river card.
C23_ExhaustiveOnTurn ==
    (Estimated /\ estimate.method = "Exact Calculation"
       /\ Len(estimate.board) = 4) =>
          \E p \in {WinProbability(estimate.hand, estimate.board)} :
             /\ estimate.trials = p.outcomes
             /\ estimate.num * p.den = p.num * estimate.den

\* C24: get_ai_action returns only Bet or Check when to_call = 0 and only
\* Raise, Call or Fold when to_call > 0; with to_call = 0 and an equity
\* strictly between fold_threshold and raise_threshold it returns Check,
\* whatever the bluff roll.
C24_ActionsByToCall ==
    decision.action # "-" =>
       /\ decision.tc = 0 => decision.action \in {"Bet", "Check"}
       /\ decision.tc > 0 => decision.action \in {"Raise", "Call", "Fold"}
       /\ (decision.tc = 0 /\ decision.eq > FOLD_THRESHOLD
             /\ decision.eq < RAISE_THRESHOLD) => decision.action = "Check"

C24_Witness ==
    /\ decision.action = "Check" /\ decision.tc = 0 /\ decision.pot > 0
    /\ decision.eq > FOLD_THRESHOLD /\ decision.eq < RAISE_THRESHOLD

\* C25: from any state of a hand in play, if the player always checks when
\* to_call = 0 and calls when to_call > 0, the hand eventually is over,
\* whatever the AI's equity, stack and bluff rolls.
C25_PassiveCompletes == InHand ~> game_over

\* C26: on Preflop the AI's equity is 0.5, so it answers every player Bet or
\* Raise, of any size, with Call, whatever its stack and the bluff roll; and
\* it does not act on Preflop after a player Call.
C26_PreflopAlwaysCall ==
    [][(Pressed /\ round_street = "Preflop") =>
          /\ last_op'.op = "bet" => last_op'.ai = "Call"
          /\ last_op'.op = "call" => last_op'.ai = "-"]_vars

\* C27: chips are conserved across hands: once a hand is resolved, by a fold
\* or by a showdown, and until the blinds of the next hand are posted,
\* player_stack + ai_stack equals the total at the last reset; and
\* start_new_hand carries no pot over: the pot of a started hand is exactly
\* its two blinds.
C27_StacksConservedAcrossHands ==
    [][/\ game_over' => player_stack' + ai_stack' = TotalChips
       /\ (last_op'.op = "start" /\ ~game_active') =>
             player_stack' + ai_stack' = TotalChips
       /\ (last_op'.op = "start" /\ game_active') =>
             /\ player_stack + ai_stack = TotalChips
             /\ current_pot' = SmallBlind(bb) + bb
             /\ player_stack' + ai_stack' + current_pot' = TotalChips]_vars

\* a second hand, started over the uncleared pot of the first, is resolved
C27_Witness ==
    /\ hands = 2
    /\ game_over
    /\ current_pot > SmallBlind(bb) + bb
    /\ player_stack # ai_stack

====
